---- MODULE Spec2Model ----
(***************************************************************************)
(* Knowledge Graph Maintenance Engine of seneschal: the relational store   *)
(* (documents, entities, relations), mergeEntities, ingestText, the        *)
(* pattern miner and gap detector, mergeNodes, saturate and                *)
(* getGraphContext, modelled from src/src/db/schema.ts (the query module), *)
(* src/src/ingestion.ts, src/src/saturation.ts, src/src/orama.ts and the   *)
(* server module src/unnamed/part_003.                                     *)
(***************************************************************************)
EXTENDS Integers, Sequences, FiniteSets, TLC

\* ------------------------------------------------------------------------
\* Bounds of the model
\* ------------------------------------------------------------------------

\* Largest entity id the autoincrement counter hands out.
MaxEntityId == 4

\* Largest number of relation rows.
MaxRelations == 3

\* Largest number of document rows.
MaxDocuments == 3

\* Largest number of document rows at which saturate still ingests a
\* search result.
MaxSearchDocuments == 1

\* Largest maxIterations a saturate call is given.
MaxIterations == 2

\* Longest list of hits the similarity index returns for one query.
MaxHits == 2

\* Largest depth a traversal is given.
MaxDepth == 2

\* Most handler invocations in one behaviour.
MaxCalls == 1

\* Most ingestText and mergeEntities calls in one behaviour that starts
\* from the empty store.
MaxStoreCalls == 4

\* Entities and relations of the stores a behaviour starts from.
SeedEntities == 3

SeedRelations == 2

\* ------------------------------------------------------------------------
\* Vocabulary
\* ------------------------------------------------------------------------

PRIVACY_LEVELS == {"PUBLIC", "PRIVATE"}

SOURCE_TYPES == {"USER", "SEARCH"}

\* The entity types and relation types the model draws from (two tags of
\* the closed vocabularies are enough to tell a type from another one).
ENTITY_TYPES == <<"COMPANY", "PERSON">>

RELATION_TYPES == <<"SUBSIDIARY_OF">>

\* The tags the type column of a relations row may hold, in the order of
\* GROUP BY: the column is plain text (its enum is a TypeScript type only),
\* and the tests insert rows under a tag RELATION_TYPES does not list.
STORED_RELATION_TYPES == <<"HAS_HEADQUARTERS", "SUBSIDIARY_OF">>

\* Entity names an extraction may produce.
Names == {"a", "b", "c"}

Range(s) == {s[i] : i \in DOMAIN s}

EntityIds == 1..MaxEntityId

\* The ids of S as the ascending sequence SQLite's scan of a rowid table
\* returns them in.
RECURSIVE SortedIds(_)
SortedIds(S) ==
  IF S = {} THEN <<>>
  ELSE LET m == CHOOSE x \in S : \A y \in S : x <= y
       IN <<m>> \o SortedIds(S \ {m})

\* ------------------------------------------------------------------------
\* The store: one statement per operator
\* ------------------------------------------------------------------------

\* The empty database, after runMigrations.
EmptyDb ==
  [entities |-> <<>>, relations |-> <<>>, documents |-> <<>>, entitySeq |-> 0]

\* createDocument: appends a row; its id is its position.
CreateDocument(db, privacyLevel, sourceType) ==
  [db EXCEPT !.documents =
     Append(@, [privacyLevel |-> privacyLevel, sourceType |-> sourceType])]

\* The id createEntity's insert is given (AUTOINCREMENT: never reused).
NewEntityId(db) == db.entitySeq + 1

\* createEntity: inserts a row under the next id.  sourceType is the value
\* the caller passes, or the column default "USER" when it passes none.
CreateEntity(db, name, type, privacyLevel, sourceType) ==
  [db EXCEPT
     !.entities = @ @@ (NewEntityId(db) :>
        [name |-> name, type |-> type, privacyLevel |-> privacyLevel,
         sourceType |-> sourceType]),
     !.entitySeq = NewEntityId(db)]

\* updateEntity(id, {privacyLevel}): the row must exist (else it throws).
UpdateEntityPrivacy(entities, id, privacyLevel) ==
  [entities EXCEPT ![id].privacyLevel = privacyLevel]

\* The id createRelation's insert is given: relation rows are never deleted.
NewRelationId(db) == Cardinality(DOMAIN db.relations) + 1

\* createRelation: inserts a row under the next id.
CreateRelation(db, src, tgt, type, description, privacyLevel, sourceType) ==
  [db EXCEPT
     !.relations = @ @@ (NewRelationId(db) :>
        [sourceEntityId |-> src, targetEntityId |-> tgt, type |-> type,
         description |-> description, properties |-> "{}",
         privacyLevel |-> privacyLevel, sourceType |-> sourceType])]

\* updateRelation(id, {privacyLevel}).
UpdateRelationPrivacy(relations, id, privacyLevel) ==
  [relations EXCEPT ![id].privacyLevel = privacyLevel]

\* findRelation(sourceId, targetId, type): the ids of the matching rows.
FindRelation(relations, src, tgt, type) ==
  {r \in DOMAIN relations :
     /\ relations[r].sourceEntityId = src
     /\ relations[r].targetEntityId = tgt
     /\ relations[r].type = type}

\* getAllEntities: every entity id, in scan order.
GetAllEntities(db) == SortedIds(DOMAIN db.entities)

\* ------------------------------------------------------------------------
\* mergeEntities
\* ------------------------------------------------------------------------

\* A merge that never upgrades the winner.
MergeUpgradeNever(entities, winnerId, loserId) == FALSE

\* The guard of the privacy upgrade of the winner.
MergeUpgradeNeeded(entities, winnerId, loserId) ==
  /\ winnerId \in DOMAIN entities
  /\ loserId \in DOMAIN entities
  /\ entities[loserId].privacyLevel = "PRIVATE"
  /\ entities[winnerId].privacyLevel = "PUBLIC"

\* Step 0: upgrade the winner when the loser is PRIVATE and it is PUBLIC.
MergeUpgrade(entities, winnerId, loserId) ==
  IF MergeUpgradeNeeded(entities, winnerId, loserId)
  THEN UpdateEntityPrivacy(entities, winnerId, "PRIVATE")
  ELSE entities

\* A merge that deletes the relations whose source is the loser.
RepointSourceDropping(relations, winnerId, loserId) ==
  [r \in {x \in DOMAIN relations : relations[x].sourceEntityId # loserId}
     |-> relations[r]]

\* Step 1: relations whose source is the loser get the winner as source.
RepointSource(relations, winnerId, loserId) ==
  [r \in DOMAIN relations |->
     IF relations[r].sourceEntityId = loserId
     THEN [relations[r] EXCEPT !.sourceEntityId = winnerId]
     ELSE relations[r]]

\* A merge that leaves the targets as they are.
RepointTargetNone(relations, winnerId, loserId) == relations

\* Step 2: relations whose target is the loser get the winner as target.
RepointTarget(relations, winnerId, loserId) ==
  [r \in DOMAIN relations |->
     IF relations[r].targetEntityId = loserId
     THEN [relations[r] EXCEPT !.targetEntityId = winnerId]
     ELSE relations[r]]

\* Step 3: delete the loser row.
DeleteEntity(entities, loserId) ==
  [i \in DOMAIN entities \ {loserId} |-> entities[i]]

\* The four statements of mergeEntities run one after the other.
MergeEntitiesDb(db, winnerId, loserId) ==
  LET upgraded == MergeUpgrade(db.entities, winnerId, loserId)
      rs == RepointSource(db.relations, winnerId, loserId)
      rt == RepointTarget(rs, winnerId, loserId)
  IN [db EXCEPT !.entities = DeleteEntity(upgraded, loserId),
                !.relations = rt]

\* ------------------------------------------------------------------------
\* findEntitiesByNames and ingestText
\* ------------------------------------------------------------------------

\* A lookup that resolves the rows of every level.
FindEntitiesByNamesAnyLevel(entities, candidates, privacyLevel) ==
  LET names == {candidates[i].name : i \in DOMAIN candidates}
      rows == {e \in DOMAIN entities : entities[e].name \in names}
  IN IF Len(candidates) = 0
     THEN [resolved |-> <<>>, unresolved |-> <<>>]
     ELSE [resolved |-> SortedIds(rows),
           unresolved |-> SelectSeq(candidates,
              LAMBDA c : ~ \E e \in rows : entities[e].name = c.name)]

\* A lookup that resolves the PUBLIC rows only, whatever the level asked.
FindEntitiesByNamesPublicOnly(entities, candidates, privacyLevel) ==
  LET names == {candidates[i].name : i \in DOMAIN candidates}
      rows == {e \in DOMAIN entities :
                 /\ entities[e].name \in names
                 /\ entities[e].privacyLevel = "PUBLIC"}
  IN IF Len(candidates) = 0
     THEN [resolved |-> <<>>, unresolved |-> <<>>]
     ELSE [resolved |-> SortedIds(rows),
           unresolved |-> SelectSeq(candidates,
              LAMBDA c : ~ \E e \in rows : entities[e].name = c.name)]

\* findEntitiesByNames(candidates, privacyLevel): resolved is the ids of
\* the visible rows whose name is a candidate's name, in scan order;
\* unresolved the candidates whose name no resolved row has.
FindEntitiesByNames(entities, candidates, privacyLevel) ==
  LET names == {candidates[i].name : i \in DOMAIN candidates}
      rows == {e \in DOMAIN entities :
                 /\ entities[e].name \in names
                 /\ (privacyLevel = "PUBLIC"
                       => entities[e].privacyLevel = "PUBLIC")}
  IN IF Len(candidates) = 0
     THEN [resolved |-> <<>>, unresolved |-> <<>>]
     ELSE [resolved |-> SortedIds(rows),
           unresolved |-> SelectSeq(candidates,
              LAMBDA c : ~ \E e \in rows : entities[e].name = c.name)]

\* An ingestion that gives an existing row the level of the document.
UpgradedPrivacyToDocument(privacyLevel, existing) == privacyLevel

\* The privacy level ingestText leaves an existing entity or relation at
\* when a document of privacyLevel mentions it.
UpgradedPrivacy(privacyLevel, existing) ==
  IF privacyLevel = "PRIVATE" /\ existing = "PUBLIC"
  THEN "PRIVATE" ELSE existing

\* The first loop of ingestText over the extracted entities from position k
\* on: map is createdEntitiesMap (name -> id).
RECURSIVE IngestEntities(_, _, _, _, _)
IngestEntities(db, map, extracted, k, privacyLevel) ==
  IF k > Len(extracted) THEN [db |-> db, map |-> map]
  ELSE
    LET x == extracted[k]
        found == FindEntitiesByNames(db.entities, <<x>>, "PRIVATE").resolved
    IN IF x.name \in DOMAIN map
       THEN IngestEntities(db, map, extracted, k + 1, privacyLevel)
       ELSE IF Len(found) > 0
       THEN IngestEntities(
              [db EXCEPT !.entities = UpdateEntityPrivacy(@, found[1],
                 UpgradedPrivacy(privacyLevel, @[found[1]].privacyLevel))],
              map @@ (x.name :> found[1]), extracted, k + 1, privacyLevel)
       ELSE IngestEntities(
              CreateEntity(db, x.name, x.type, privacyLevel, "USER"),
              map @@ (x.name :> NewEntityId(db)), extracted, k + 1,
              privacyLevel)

\* The second loop of ingestText over the extracted relations from
\* position k on.
RECURSIVE IngestRelations(_, _, _, _, _)
IngestRelations(db, map, extracted, k, privacyLevel) ==
  IF k > Len(extracted) THEN db
  ELSE
    LET x == extracted[k]
    IN IF x.source \in DOMAIN map /\ x.target \in DOMAIN map
       THEN LET existing ==
                  FindRelation(db.relations, map[x.source], map[x.target],
                               x.type)
                first == CHOOSE r \in existing : \A q \in existing : r <= q
            IN IF existing # {}
               THEN IngestRelations(
                      [db EXCEPT !.relations = UpdateRelationPrivacy(@, first,
                         UpgradedPrivacy(privacyLevel, @[first].privacyLevel))],
                      map, extracted, k + 1, privacyLevel)
               ELSE IngestRelations(
                      CreateRelation(db, map[x.source], map[x.target], x.type,
                                     x.description, privacyLevel, "USER"),
                      map, extracted, k + 1, privacyLevel)
       ELSE IngestRelations(db, map, extracted, k + 1, privacyLevel)

\* ingestText(content, sourceType, privacyLevel) with the extraction the
\* language model returned for content: the store it leaves.
IngestTextDb(db, sourceType, privacyLevel, extraction) ==
  LET withDoc == CreateDocument(db, privacyLevel, sourceType)
      afterEntities ==
        IngestEntities(withDoc, <<>>, extraction.entities, 1, privacyLevel)
  IN IngestRelations(afterEntities.db, afterEntities.map,
                     extraction.relations, 1, privacyLevel)

\* ------------------------------------------------------------------------
\* Pattern miner and gap detector
\* ------------------------------------------------------------------------

\* Default of findCommonRelationPatterns' threshold parameter.
DefaultThreshold == 2

\* The number of relations of the type, whatever their source.
PatternCountAnySource(db, entityType, relationType) ==
  Cardinality({r \in DOMAIN db.relations :
     db.relations[r].type = relationType})

\* count(relations.id) of the group (entityType, relationType) of the left
\* join of relations with their source entity.
PatternCount(db, entityType, relationType) ==
  Cardinality({r \in DOMAIN db.relations :
     /\ db.relations[r].type = relationType
     /\ db.relations[r].sourceEntityId \in DOMAIN db.entities
     /\ db.entities[db.relations[r].sourceEntityId].type = entityType})

\* findCommonRelationPatterns(threshold): the map entity type -> relation
\* types of the groups with count >= threshold (a type with no such group
\* is no key).  GROUP BY makes a group only of rows: a pair no relation
\* has is no group, whatever the threshold.
FindCommonRelationPatterns(db, threshold) ==
  LET common(T) ==
        SelectSeq(STORED_RELATION_TYPES,
                  LAMBDA R : /\ PatternCount(db, T, R) >= 1
                             /\ PatternCount(db, T, R) >= threshold)
  IN [T \in {X \in Range(ENTITY_TYPES) : Len(common(X)) > 0} |-> common(T)]

\* Entities of entityType that are the target of no relation of
\* relationType, taken for those that are the source of none.
EntitiesMissingOutByTarget(db, entityType, relationType) ==
  {e \in DOMAIN db.entities :
     /\ db.entities[e].type = entityType
     /\ ~ \E r \in DOMAIN db.relations :
            /\ db.relations[r].type = relationType
            /\ db.relations[r].targetEntityId = e}

\* Entities of entityType that are the source of no relation of
\* relationType.
EntitiesMissingOut(db, entityType, relationType) ==
  {e \in DOMAIN db.entities :
     /\ db.entities[e].type = entityType
     /\ ~ \E r \in DOMAIN db.relations :
            /\ db.relations[r].type = relationType
            /\ db.relations[r].sourceEntityId = e}

\* Entities of entityType that are the target of no relation of
\* relationType.
EntitiesMissingIn(db, entityType, relationType) ==
  {e \in DOMAIN db.entities :
     /\ db.entities[e].type = entityType
     /\ ~ \E r \in DOMAIN db.relations :
            /\ db.relations[r].type = relationType
            /\ db.relations[r].targetEntityId = e}

\* The order in which findEntitiesWithMissingRelations first puts entity
\* ids into tempMap: patterns in key order, per relation type the entities
\* missing it outgoing, then those missing it incoming, each in scan order.
RECURSIVE GapOrder(_, _, _, _, _)
GapOrder(db, patterns, t, r, acc) ==
  IF t > Len(ENTITY_TYPES) THEN acc
  ELSE IF ENTITY_TYPES[t] \notin DOMAIN patterns
          \/ r > Len(patterns[ENTITY_TYPES[t]])
  THEN GapOrder(db, patterns, t + 1, 1, acc)
  ELSE
    LET T == ENTITY_TYPES[t]
        R == patterns[T][r]
        withOut == acc \o SortedIds(EntitiesMissingOut(db, T, R) \ Range(acc))
        withIn ==
          withOut \o SortedIds(EntitiesMissingIn(db, T, R) \ Range(withOut))
    IN GapOrder(db, patterns, t, r + 1, withIn)

\* findEntitiesWithMissingRelations(patterns): the entries of the result
\* map in iteration order, each the entity row as read and its missing
\* incoming and outgoing relation types.
FindEntitiesWithMissingRelations(db, patterns) ==
  LET order == GapOrder(db, patterns, 1, 1, <<>>)
      missingOut(e) ==
        {R \in Range(STORED_RELATION_TYPES) :
           \E T \in DOMAIN patterns :
              R \in Range(patterns[T]) /\ e \in EntitiesMissingOut(db, T, R)}
      missingIn(e) ==
        {R \in Range(STORED_RELATION_TYPES) :
           \E T \in DOMAIN patterns :
              R \in Range(patterns[T]) /\ e \in EntitiesMissingIn(db, T, R)}
  IN [i \in 1..Len(order) |->
        [id |-> order[i],
         name |-> db.entities[order[i]].name,
         type |-> db.entities[order[i]].type,
         privacyLevel |-> db.entities[order[i]].privacyLevel,
         inRelationTypes |-> missingIn(order[i]),
         outRelationTypes |-> missingOut(order[i])]]

\* generateLinkupQuery(entity, missingRelations): whether it returns a
\* query (it returns null when no relation type is missing).
HasLinkupQuery(gap) ==
  ~ (gap.inRelationTypes = {} /\ gap.outRelationTypes = {})

\* The query generateLinkupQuery builds: the text names the entity and its
\* type and lists the missing relation types; privacyLevel is the level of
\* the entity the text is built from.
GenerateLinkupQuery(gap) ==
  [name |-> gap.name, type |-> gap.type,
   inRelationTypes |-> gap.inRelationTypes,
   outRelationTypes |-> gap.outRelationTypes,
   privacyLevel |-> gap.privacyLevel]

\* ------------------------------------------------------------------------
\* Inputs from the collaborators
\* ------------------------------------------------------------------------

SeqsUpTo(S, n) == UNION {[1..k -> S] : k \in 0..n}

\* An extracted entity and an extracted relation, as the language model
\* returns them.
Mention(name) == [name |-> name, type |-> "COMPANY"]

Link(source, target) ==
  [source |-> source, target |-> target, type |-> "SUBSIDIARY_OF",
   description |-> "d"]

\* What extractEntitiesAndRelations may return for a text: nothing; one
\* entity; two entities and the relation between them, in either
\* direction; the same name twice; a relation that names an entity the
\* list does not hold.
Extractions ==
  {[entities |-> <<>>, relations |-> <<>>]}
  \cup {[entities |-> <<Mention(n)>>, relations |-> <<>>] : n \in Names}
  \cup {[entities |-> <<Mention(n), Mention(m)>>,
         relations |-> <<Link(n, m)>>] : n \in Names, m \in Names}
  \cup {[entities |-> <<Mention("a")>>, relations |-> <<Link("a", "c")>>]}

\* The store stays within the bounds of the model.
WithinBounds(db) ==
  /\ db.entitySeq <= MaxEntityId
  /\ Cardinality(DOMAIN db.relations) <= MaxRelations
  /\ Len(db.documents) <= MaxDocuments

\* The lists of start ids a traversal is given: none, one id (the last one
\* is of no entity), two ids.
StartLists == {{}} \cup {{i} : i \in EntityIds} \cup {{1, 3}}

\* What findSimilarEntities may return: any list of distinct indexed ids.
HitLists(index) ==
  {h \in SeqsUpTo(index, MaxHits) :
     \A i, j \in DOMAIN h : i # j => h[i] # h[j]}

\* ------------------------------------------------------------------------
\* State
\* ------------------------------------------------------------------------

VARIABLES
  db,        \* the relational store
  oramaDb,   \* ids held by the global similarity index (orama.ts, oramaDb)
  last,      \* the last mergeEntities / ingestText call: its arguments,
             \* whether it threw, and the store it was called on
  mn,        \* the frame of mergeNodes
  sat,       \* the frame of saturate
  searches,  \* queries sent to the external search service so far
  calls,     \* handler invocations the run may still start
  trav,      \* the frame of getGraphContext
  mrg        \* the frame of a mergeEntities call that runs statement by
             \* statement while other calls read the store

vars == <<db, oramaDb, last, mn, sat, searches, calls, trav, mrg>>

\* A handler may be invoked.
MayCall == calls > 0

NoCall ==
  [op |-> "none", args |-> <<>>, err |-> FALSE, before |-> EmptyDb,
   result |-> <<>>]

MnIdle ==
  [pc |-> "idle", all |-> <<>>, k |-> 0, processedIds |-> {},
   mergedPairs |-> <<>>, similar |-> <<>>, caller |-> "none"]

\* saturate's locals; result is what the last search returned ("none"
\* before one returns), listed counts the ingested results that listed a
\* relation, caught the exceptions its catch clause caught.
SatIdle ==
  [pc |-> "idle", i |-> 0, maxIterations |-> 0, gaps |-> <<>>, g |-> 0,
   result |-> "none", saturatedCount |-> 0, caught |-> 0, listed |-> 0]

\* No handler is between two of its steps.
NotRunning ==
  /\ mn.pc \in {"idle", "done", "failed"}
  /\ sat.pc \in {"idle", "done", "failed"}

\* ------------------------------------------------------------------------
\* Store operations called one at a time
\* ------------------------------------------------------------------------

\* mergeEntities(winnerId, loserId), all four statements: it returns
\* nothing and throws nothing, whether or not the rows exist.
MergeEntities(winnerId, loserId) ==
  /\ NotRunning
  /\ MayCall
  /\ calls' = calls - 1
  /\ db' = MergeEntitiesDb(db, winnerId, loserId)
  /\ last' = [op |-> "mergeEntities", args |-> <<winnerId, loserId>>,
              err |-> FALSE, before |-> db, result |-> <<>>]
  /\ mn' = MnIdle
  /\ sat' = SatIdle
  /\ UNCHANGED <<oramaDb, searches, trav, mrg>>

\* ingestText(content, "USER", privacyLevel) from the /ingest route.
IngestText(privacyLevel, extraction) ==
  /\ NotRunning
  /\ MayCall
  /\ calls' = calls - 1
  /\ WithinBounds(IngestTextDb(db, "USER", privacyLevel, extraction))
  /\ db' = IngestTextDb(db, "USER", privacyLevel, extraction)
  /\ last' = [op |-> "ingestText",
              args |-> <<"USER", privacyLevel, extraction>>,
              err |-> FALSE, before |-> db, result |-> <<>>]
  /\ mn' = MnIdle
  /\ sat' = SatIdle
  /\ UNCHANGED <<oramaDb, searches, trav, mrg>>

\* ------------------------------------------------------------------------
\* mergeNodes
\* ------------------------------------------------------------------------

\* Whether Orama's insert rejects a document whose id the index holds
\* already: the library is not part of the repository, so both answers
\* are modelled.
InsertOutcomes == {"rejects", "accepts"}

\* A pair whose winner is the entity of the higher id.
MergePairHigher(entityId, otherId) ==
  [winnerId |-> IF entityId < otherId THEN otherId ELSE entityId,
   loserId |-> IF entityId < otherId THEN entityId ELSE otherId]

\* winnerId = Math.min(entity.id, otherId), loserId = Math.max(...).
MergePair(entityId, otherId) ==
  [winnerId |-> IF entityId < otherId THEN entityId ELSE otherId,
   loserId |-> IF entityId < otherId THEN otherId ELSE entityId]

\* The inner loop of mergeNodes over the hits of one entity from position
\* h on: every hit that is not the entity itself and is not processed is
\* merged with it, lower id as the winner.
RECURSIVE MergeHits(_, _, _, _, _, _)
MergeHits(store, processedIds, mergedPairs, entityId, hits, h) ==
  IF h > Len(hits)
  THEN [db |-> store, processedIds |-> processedIds,
        mergedPairs |-> mergedPairs]
  ELSE
    LET otherId == hits[h]
        winnerId == MergePair(entityId, otherId).winnerId
        loserId == MergePair(entityId, otherId).loserId
    IN IF otherId = entityId \/ otherId \in processedIds
       THEN MergeHits(store, processedIds, mergedPairs, entityId, hits, h + 1)
       ELSE MergeHits(MergeEntitiesDb(store, winnerId, loserId),
                      processedIds \cup {winnerId, loserId},
                      Append(mergedPairs,
                             [winner |-> ToString(winnerId),
                              loser |-> ToString(loserId)]),
                      entityId, hits, h + 1)

\* Steps 1 and 2 of mergeNodes: read all entities (none: it throws), then
\* insert each into the global index.  An insert that is rejected throws
\* and leaves the entities before it indexed.
BeginMergeNodes(caller) ==
  LET all == GetAllEntities(db)
      dups == {i \in 1..Len(all) : all[i] \in oramaDb}
      firstDup == CHOOSE i \in dups : \A j \in dups : i <= j
      failed == [MnIdle EXCEPT !.pc = "failed", !.caller = caller]
  IN IF Len(all) = 0
     THEN mn' = failed /\ oramaDb' = oramaDb
     ELSE \E outcome \in InsertOutcomes :
            IF dups # {} /\ outcome = "rejects"
            THEN /\ mn' = failed
                 /\ oramaDb' = oramaDb \cup {all[i] : i \in 1..(firstDup - 1)}
            ELSE /\ mn' = [MnIdle EXCEPT !.pc = "scan", !.all = all, !.k = 1,
                                         !.caller = caller]
                 /\ oramaDb' = oramaDb \cup Range(all)

\* POST /merge-nodes.
MergeNodes ==
  /\ NotRunning
  /\ MayCall
  /\ calls' = calls - 1
  /\ BeginMergeNodes("api")
  /\ last' = NoCall
  /\ sat' = SatIdle
  /\ UNCHANGED <<db, searches, trav, mrg>>

\* One turn of the outer loop of mergeNodes (step 3), and the return after
\* the last one.
MergeNodesScan ==
  /\ mn.pc = "scan"
  /\ LET entityId == mn.all[mn.k]
         pc == IF mn.k + 1 > Len(mn.all) THEN "done" ELSE "scan"
     IN IF entityId \in mn.processedIds
        THEN /\ mn' = [mn EXCEPT !.k = @ + 1, !.pc = pc]
             /\ db' = db
        ELSE \E hits \in HitLists(oramaDb) :
               LET r == MergeHits(db, mn.processedIds, mn.mergedPairs,
                                  entityId, hits, 1)
               IN /\ db' = r.db
                  /\ mn' = [mn EXCEPT !.k = @ + 1, !.pc = pc,
                                      !.similar = hits,
                                      !.processedIds = r.processedIds,
                                      !.mergedPairs = r.mergedPairs]
  /\ UNCHANGED <<oramaDb, last, sat, searches, calls, trav, mrg>>

\* ------------------------------------------------------------------------
\* saturate
\* ------------------------------------------------------------------------

\* What searchLinkup may do for a query: it returns schema.parse(response),
\* so it returns a structured result whose two relation lists are empty
\* (nothing was found), returns a structured result that lists relations,
\* or throws (network error, timeout, a response the schema rejects).  It
\* never returns null: the result schema is an object schema.
SearchOutcomes == {"empty", "result", "throws"}

\* What ingestText may do: finish, throw in createDocument (the insert
\* rejects or returns no row, so no document row is written; classifyDocument
\* before it catches its own errors), or throw after the document row is
\* written (extractEntitiesAndRelations returns generateJson's promise
\* un-awaited, so its rejection escapes the try block).
IngestOutcomes == {"ok", "createThrows", "extractThrows"}

\* A loop that runs one iteration more.
LoopContinuesInclusive(i, maxIterations) == i <= maxIterations

\* The loop condition of saturate's for loop.
LoopContinues(i, maxIterations) == i < maxIterations

\* The head of one iteration: mine the patterns, detect the gaps.
BeginIteration(frame, store) ==
  IF LoopContinues(frame.i, frame.maxIterations)
  THEN [frame EXCEPT
          !.pc = "entities",
          !.gaps = FindEntitiesWithMissingRelations(
                     store,
                     FindCommonRelationPatterns(store, DefaultThreshold)),
          !.g = 1]
  ELSE [frame EXCEPT !.pc = "done", !.gaps = <<>>, !.g = 0]

\* POST /saturate {maxIterations}.
Saturate(maxIterations) ==
  /\ NotRunning
  /\ MayCall
  /\ calls' = calls - 1
  /\ db' = db
  /\ sat' = BeginIteration([SatIdle EXCEPT !.maxIterations = maxIterations],
                         db)
  /\ mn' = MnIdle
  /\ last' = NoCall
  /\ UNCHANGED <<oramaDb, searches, trav, mrg>>

\* The catch clause of the per-entity try block: it throws again, so the
\* run ends with the error.  caught counts the exceptions it caught.
SaturateCatch(frame) ==
  [frame EXCEPT !.pc = "failed", !.gaps = <<>>, !.g = 0, !.caught = @ + 1,
                !.result = "none"]

\* One turn of the loop over the gapped entities.
SaturateEntity ==
  /\ sat.pc = "entities"
  /\ sat.g <= Len(sat.gaps)
  /\ LET gap == sat.gaps[sat.g]
         next == [sat EXCEPT !.g = @ + 1, !.result = "none"]
     IN IF ~ HasLinkupQuery(gap)
        THEN /\ sat' = next
             /\ UNCHANGED <<db, searches>>
        ELSE
          /\ searches' = searches \cup {GenerateLinkupQuery(gap)}
          /\ \E outcome \in SearchOutcomes :
               \/ /\ outcome = "throws"
                  /\ sat' = SaturateCatch(sat)
                  /\ db' = db
               \/ /\ outcome \in {"empty", "result"}
                  /\ \E ingest \in IngestOutcomes, extraction \in Extractions :
                       \/ /\ ingest = "ok"
                          /\ Len(db.documents) < MaxSearchDocuments
                          /\ WithinBounds(IngestTextDb(db, "SEARCH", "PUBLIC",
                                                       extraction))
                          /\ db' = IngestTextDb(db, "SEARCH", "PUBLIC",
                                                extraction)
                          /\ sat' = [next EXCEPT
                                       !.result = outcome,
                                       !.saturatedCount = @ + 1,
                                       !.listed = IF outcome = "result"
                                                  THEN @ + 1 ELSE @]
                       \/ /\ ingest = "createThrows"
                          /\ db' = db
                          /\ sat' = [SaturateCatch(sat) EXCEPT
                                       !.result = outcome]
                       \/ /\ ingest = "extractThrows"
                          /\ Len(db.documents) < MaxSearchDocuments
                          /\ db' = CreateDocument(db, "PUBLIC", "SEARCH")
                          /\ sat' = [SaturateCatch(sat) EXCEPT
                                       !.result = outcome]
  /\ UNCHANGED <<oramaDb, last, mn, calls, trav, mrg>>

\* After the last gapped entity: await mergeNodes().
SaturateMerge ==
  /\ sat.pc = "entities"
  /\ sat.g > Len(sat.gaps)
  /\ BeginMergeNodes("saturate")
  /\ sat' = [sat EXCEPT !.pc = "merge", !.gaps = <<>>, !.g = 0]
  /\ UNCHANGED <<db, last, searches, calls, trav, mrg>>

\* mergeNodes returned or threw: the next iteration, or the end of the run.
SaturateNext ==
  /\ sat.pc = "merge"
  /\ mn.pc \in {"done", "failed"}
  /\ db' = db
  /\ sat' = IF mn.pc = "failed"
            THEN [sat EXCEPT !.pc = "failed"]
            ELSE BeginIteration([sat EXCEPT !.i = @ + 1], db)
  /\ mn' = MnIdle
  /\ UNCHANGED <<oramaDb, last, searches, calls, trav, mrg>>

\* ------------------------------------------------------------------------
\* getGraphContext
\* ------------------------------------------------------------------------

TravIdle ==
  [pc |-> "idle", startEntityIds |-> {}, privacyLevel |-> "PRIVATE",
   depth |-> 0, d |-> 0,
   currentLevelIds |-> {}, visitedNodeIds |-> {}, nodesMap |-> <<>>,
   edgesMap |-> <<>>, relevantRelations |-> <<>>, uniqueNextLevelIds |-> {}]

\* A traversal that filters nothing.
privacyFilterNone(privacyLevel, row) == TRUE

\* privacyFilter(table): a PUBLIC query sees PUBLIC rows only, a PRIVATE
\* query sees every row.
privacyFilter(privacyLevel, row) ==
  privacyLevel = "PUBLIC" => row.privacyLevel = "PUBLIC"

\* The GraphNode and the GraphEdge copied from a row.
GraphNode(id, row) ==
  [id |-> id, name |-> row.name, type |-> row.type,
   privacyLevel |-> row.privacyLevel]

GraphEdge(id, row) ==
  [id |-> id, source |-> row.sourceEntityId, target |-> row.targetEntityId,
   type |-> row.type, description |-> row.description,
   properties |-> row.properties, privacyLevel |-> row.privacyLevel]

\* select from entities where id in ids and privacyFilter: the nodes by id.
SelectNodes(store, ids, privacyLevel) ==
  [id \in {i \in ids \cap DOMAIN store.entities :
             privacyFilter(privacyLevel, store.entities[i])}
     |-> GraphNode(id, store.entities[id])]

\* select from relations where (source in ids or target in ids) and
\* privacyFilter: the rows by id.
SelectRelations(store, ids, privacyLevel) ==
  [r \in {x \in DOMAIN store.relations :
            /\ \/ store.relations[x].sourceEntityId \in ids
               \/ store.relations[x].targetEntityId \in ids
            /\ privacyFilter(privacyLevel, store.relations[x])}
     |-> store.relations[r]]

\* The endpoints of the fetched rows, visited or not.
NextLevelIdsRevisiting(rows, visitedNodeIds) ==
  {rows[r].sourceEntityId : r \in DOMAIN rows}
    \cup {rows[r].targetEntityId : r \in DOMAIN rows}

\* The targets of the fetched rows not visited yet: outgoing hops only.
NextLevelIdsForward(rows, visitedNodeIds) ==
  {rows[r].targetEntityId : r \in DOMAIN rows} \ visitedNodeIds

\* uniqueNextLevelIds: the endpoints of the fetched rows not visited yet.
NextLevelIds(rows, visitedNodeIds) ==
  ({rows[r].sourceEntityId : r \in DOMAIN rows}
     \cup {rows[r].targetEntityId : r \in DOMAIN rows}) \ visitedNodeIds

\* edgesMap after every fetched row is set, visited endpoints or not.
AddEdgesAll(edgesMap, rows, visitedNodeIds) ==
  [r \in DOMAIN edgesMap \cup DOMAIN rows |->
     IF r \in DOMAIN rows THEN GraphEdge(r, rows[r]) ELSE edgesMap[r]]

\* edgesMap after the fetched rows whose two endpoints are visited are set.
AddEdges(edgesMap, rows, visitedNodeIds) ==
  LET add == {r \in DOMAIN rows :
                /\ rows[r].sourceEntityId \in visitedNodeIds
                /\ rows[r].targetEntityId \in visitedNodeIds}
  IN [r \in DOMAIN edgesMap \cup add |->
        IF r \in add THEN GraphEdge(r, rows[r]) ELSE edgesMap[r]]

\* The head of the for loop: another round, or the return.
LoopHead(d, depth, currentLevelIds) ==
  IF d < depth /\ currentLevelIds # {} THEN "relations" ELSE "done"

\* getGraphContext(startEntityIds, depth, privacyLevel) up to the end of
\* its first read, the initial nodes.
GetGraphContext(startEntityIds, depth, privacyLevel) ==
  /\ NotRunning
  /\ MayCall
  /\ calls' = calls - 1
  /\ trav.pc = "idle"
  /\ LET initialNodes == IF startEntityIds = {} THEN <<>>
                         ELSE SelectNodes(db, startEntityIds, privacyLevel)
     IN trav' = [TravIdle EXCEPT
                   !.pc = LoopHead(0, depth, DOMAIN initialNodes),
                   !.startEntityIds = startEntityIds,
                   !.privacyLevel = privacyLevel,
                   !.depth = depth,
                   !.currentLevelIds = DOMAIN initialNodes,
                   !.visitedNodeIds = DOMAIN initialNodes,
                   !.nodesMap = initialNodes]
  /\ UNCHANGED <<db, oramaDb, last, mn, sat, searches, mrg>>

\* The read of the relations that touch the current level; with no new
\* endpoint the edges between visited nodes are added and the loop ends.
TravRelations ==
  /\ trav.pc = "relations"
  /\ LET rows == SelectRelations(db, trav.currentLevelIds, trav.privacyLevel)
         next == NextLevelIds(rows, trav.visitedNodeIds)
     IN IF next = {}
        THEN trav' = [trav EXCEPT
                        !.pc = "done",
                        !.edgesMap = AddEdges(@, rows, trav.visitedNodeIds)]
        ELSE trav' = [trav EXCEPT
                        !.pc = "nodes",
                        !.relevantRelations = rows,
                        !.uniqueNextLevelIds = next]
  /\ UNCHANGED <<db, oramaDb, last, mn, sat, searches, calls, mrg>>

\* The read of the new neighbours: the visible ones become nodes and the
\* next level, and the fetched rows between visited nodes become edges.
TravNodes ==
  /\ trav.pc = "nodes"
  /\ LET newNodes == SelectNodes(db, trav.uniqueNextLevelIds,
                                 trav.privacyLevel)
         visited == trav.visitedNodeIds \cup DOMAIN newNodes
     IN trav' = [trav EXCEPT
                   !.pc = LoopHead(trav.d + 1, trav.depth, DOMAIN newNodes),
                   !.d = @ + 1,
                   !.currentLevelIds = DOMAIN newNodes,
                   !.visitedNodeIds = visited,
                   !.nodesMap = newNodes @@ @,
                   !.edgesMap = AddEdges(@, trav.relevantRelations, visited),
                   !.relevantRelations = <<>>,
                   !.uniqueNextLevelIds = {}]
  /\ UNCHANGED <<db, oramaDb, last, mn, sat, searches, calls, mrg>>

\* ------------------------------------------------------------------------
\* mergeEntities, one statement at a time
\* ------------------------------------------------------------------------

MrgIdle ==
  [pc |-> "idle", winnerId |-> 0, loserId |-> 0, rows |-> <<>>,
   before |-> EmptyDb]

\* The rows a select by id returns.
SelectEntity(store, id) ==
  [i \in {id} \cap DOMAIN store.entities |-> store.entities[i]]

\* The call and its first statement, the select of the winner.
MergeSelectWinner(winnerId, loserId) ==
  /\ mrg.pc = "idle"
  /\ mrg' = [pc |-> "loser", winnerId |-> winnerId, loserId |-> loserId,
             rows |-> SelectEntity(db, winnerId), before |-> db]
  /\ UNCHANGED <<db, oramaDb, last, mn, sat, searches, calls, trav>>

\* The select of the loser.
MergeSelectLoser ==
  /\ mrg.pc = "loser"
  /\ mrg' = [mrg EXCEPT !.pc = "upgrade",
                        !.rows = SelectEntity(db, mrg.loserId) @@ @]
  /\ UNCHANGED <<db, oramaDb, last, mn, sat, searches, calls, trav>>

\* Step 0 on the two rows read: updateEntity(winnerId, PRIVATE), which
\* throws when the winner row is no longer there.
MergeUpgradeWinner ==
  /\ mrg.pc = "upgrade"
  /\ IF ~ MergeUpgradeNeeded(mrg.rows, mrg.winnerId, mrg.loserId)
     THEN mrg' = [mrg EXCEPT !.pc = "source"] /\ db' = db
     ELSE IF mrg.winnerId \in DOMAIN db.entities
     THEN /\ mrg' = [mrg EXCEPT !.pc = "source"]
          /\ db' = [db EXCEPT !.entities =
                      UpdateEntityPrivacy(@, mrg.winnerId, "PRIVATE")]
     ELSE mrg' = [mrg EXCEPT !.pc = "failed"] /\ db' = db
  /\ UNCHANGED <<oramaDb, last, mn, sat, searches, calls, trav>>

\* Step 1.
MergeRepointSource ==
  /\ mrg.pc = "source"
  /\ mrg' = [mrg EXCEPT !.pc = "target"]
  /\ db' = [db EXCEPT !.relations =
              RepointSource(@, mrg.winnerId, mrg.loserId)]
  /\ UNCHANGED <<oramaDb, last, mn, sat, searches, calls, trav>>

\* Step 2.
MergeRepointTarget ==
  /\ mrg.pc = "target"
  /\ mrg' = [mrg EXCEPT !.pc = "delete"]
  /\ db' = [db EXCEPT !.relations =
              RepointTarget(@, mrg.winnerId, mrg.loserId)]
  /\ UNCHANGED <<oramaDb, last, mn, sat, searches, calls, trav>>

\* Step 3, and the return.
MergeDeleteLoser ==
  /\ mrg.pc = "delete"
  /\ mrg' = [mrg EXCEPT !.pc = "done"]
  /\ db' = [db EXCEPT !.entities = DeleteEntity(@, mrg.loserId)]
  /\ UNCHANGED <<oramaDb, last, mn, sat, searches, calls, trav>>

\* A statement of steps 1 to 3 is rejected by the database client: the
\* promise rejects, no statement after it runs, none before it is undone.
MergeStatementFails ==
  /\ mrg.pc \in {"source", "target", "delete"}
  /\ mrg' = [mrg EXCEPT !.pc = "failed"]
  /\ UNCHANGED <<db, oramaDb, last, mn, sat, searches, calls, trav>>

\* ------------------------------------------------------------------------
\* The engine, one handler at a time
\* ------------------------------------------------------------------------

\* The rows the tests insert with createEntity and createRelation before
\* they call the engine: companies, all but the first under one name, and
\* subsidiary relations.
SeedEntity(id, privacyLevel) ==
  [name |-> IF id = 1 THEN "a" ELSE "b", type |-> "COMPANY",
   privacyLevel |-> privacyLevel, sourceType |-> "USER"]

SeedRelation(src, tgt, privacyLevel) ==
  [sourceEntityId |-> src, targetEntityId |-> tgt,
   type |-> "SUBSIDIARY_OF", description |-> "d", properties |-> "{}",
   privacyLevel |-> privacyLevel, sourceType |-> "USER"]

\* The store with the entities of ids at the levels p and the relations
\* rels, after SeedEntities inserts (and the merges that deleted the rest).
StoreOf(ids, p, rels) ==
  [entities |-> [i \in ids |-> SeedEntity(i, p[i])],
   relations |-> rels,
   documents |-> <<>>,
   entitySeq |-> SeedEntities]

\* Three companies and the relations 1 -> 2 -> 3, at every privacy level.
ScenarioDb(p, q) ==
  StoreOf(1..SeedEntities, p,
          <<SeedRelation(1, 2, q[1]), SeedRelation(2, 3, q[2])>>)

\* Two companies that are each other's subsidiary and a third without a
\* relation: the store in which one entity is gapped.
OneGapDb ==
  StoreOf(1..SeedEntities, [i \in 1..SeedEntities |-> "PUBLIC"],
          <<SeedRelation(2, 3, "PUBLIC"), SeedRelation(3, 2, "PUBLIC")>>)

SeedDbs ==
  {EmptyDb, OneGapDb} \cup
  {ScenarioDb(p, q) : p \in [1..SeedEntities -> PRIVACY_LEVELS],
                      q \in [1..2 -> PRIVACY_LEVELS]}

\* Every store of at most SeedEntities entities, some of them merged away,
\* and at most SeedRelations relations between the entities it holds.
StoresOver(ids) ==
  {StoreOf(ids, p, rels) :
     p \in [ids -> PRIVACY_LEVELS],
     rels \in SeqsUpTo({SeedRelation(src, tgt, q) :
                          src \in ids, tgt \in ids, q \in PRIVACY_LEVELS},
                       SeedRelations)}

Stores == UNION {StoresOver(ids) : ids \in SUBSET (1..SeedEntities)}

Init ==
  /\ db \in SeedDbs
  /\ oramaDb = {}
  /\ last = NoCall
  /\ mn = MnIdle
  /\ sat = SatIdle
  /\ searches = {}
  /\ calls = MaxCalls
  /\ trav = TravIdle
  /\ mrg = MrgIdle

Next ==
  \/ \E w, l \in EntityIds : MergeEntities(w, l)
  \/ \E p \in PRIVACY_LEVELS, x \in Extractions : IngestText(p, x)
  \/ MergeNodes
  \/ MergeNodesScan
  \/ \E n \in 0..MaxIterations : Saturate(n)
  \/ SaturateEntity
  \/ SaturateMerge
  \/ SaturateNext
  \/ \E ids \in StartLists, depth \in 0..MaxDepth, p \in PRIVACY_LEVELS :
       GetGraphContext(ids, depth, p)
  \/ TravRelations
  \/ TravNodes

Spec == Init /\ [][Next]_vars

\* ------------------------------------------------------------------------
\* saturate alone, under the scheduling of the event loop
\* ------------------------------------------------------------------------

InitSaturate ==
  /\ db \in {EmptyDb, OneGapDb} \cup
             {ScenarioDb([i \in 1..SeedEntities |-> l], [i \in 1..2 |-> l]) :
                l \in PRIVACY_LEVELS}
  /\ oramaDb = {}
  /\ last = NoCall
  /\ mn = MnIdle
  /\ sat = SatIdle
  /\ searches = {}
  /\ calls = MaxCalls
  /\ trav = TravIdle
  /\ mrg = MrgIdle

\* A step of a run of saturate after its start.
SaturateStep ==
  \/ SaturateEntity
  \/ SaturateMerge
  \/ MergeNodesScan
  \/ SaturateNext

NextSaturate ==
  \/ \E n \in 0..MaxIterations : Saturate(n)
  \/ SaturateStep

\* The event loop runs the continuation of every await whose promise has
\* settled, and the promises of the adapters settle (with a result, with
\* nothing or with an exception): a run that can take a step takes it.
SpecFair == InitSaturate /\ [][NextSaturate]_vars /\ WF_vars(SaturateStep)

\* ------------------------------------------------------------------------
\* saturate on the store of the saturation test
\* ------------------------------------------------------------------------

\* The store the saturation test builds: three companies, HAS_HEADQUARTERS
\* relations out of the second and the third, none out of the first.
HeadquartersDb ==
  StoreOf(1..SeedEntities, [i \in 1..SeedEntities |-> "PUBLIC"],
          <<[SeedRelation(2, 3, "PUBLIC") EXCEPT !.type = "HAS_HEADQUARTERS"],
            [SeedRelation(3, 2, "PUBLIC") EXCEPT !.type = "HAS_HEADQUARTERS"]>>)

InitHeadquarters ==
  /\ db = HeadquartersDb
  /\ oramaDb = {}
  /\ last = NoCall
  /\ mn = MnIdle
  /\ sat = SatIdle
  /\ searches = {}
  /\ calls = MaxCalls
  /\ trav = TravIdle
  /\ mrg = MrgIdle

SpecHeadquarters == InitHeadquarters /\ [][NextSaturate]_vars

\* ------------------------------------------------------------------------
\* mergeEntities called on every store
\* ------------------------------------------------------------------------

InitMerge ==
  /\ db \in Stores
  /\ oramaDb = {}
  /\ last = NoCall
  /\ mn = MnIdle
  /\ sat = SatIdle
  /\ searches = {}
  /\ calls = MaxCalls
  /\ trav = TravIdle
  /\ mrg = MrgIdle

NextMerge == \E w, l \in EntityIds : MergeEntities(w, l)

SpecMerge == InitMerge /\ [][NextMerge]_vars

\* ------------------------------------------------------------------------
\* mergeNodes called on every store
\* ------------------------------------------------------------------------

NextMergeNodes ==
  \/ MergeNodes
  \/ MergeNodesScan

SpecMergeNodes == InitMerge /\ [][NextMergeNodes]_vars

\* ------------------------------------------------------------------------
\* getGraphContext called on every store
\* ------------------------------------------------------------------------

InitGraph ==
  /\ db \in StoresOver(1..SeedEntities)
  /\ oramaDb = {}
  /\ last = NoCall
  /\ mn = MnIdle
  /\ sat = SatIdle
  /\ searches = {}
  /\ calls = MaxCalls
  /\ trav = TravIdle
  /\ mrg = MrgIdle

NextGraph ==
  \/ \E ids \in StartLists, depth \in 0..MaxDepth, p \in PRIVACY_LEVELS :
       GetGraphContext(ids, depth, p)
  \/ TravRelations
  \/ TravNodes

SpecGraph == InitGraph /\ [][NextGraph]_vars

\* ------------------------------------------------------------------------
\* mergeEntities statement by statement while a traversal reads the store
\* ------------------------------------------------------------------------

NextConc ==
  \/ \E w, l \in EntityIds : MergeSelectWinner(w, l)
  \/ MergeSelectLoser
  \/ MergeUpgradeWinner
  \/ MergeRepointSource
  \/ MergeRepointTarget
  \/ MergeDeleteLoser
  \/ MergeStatementFails
  \/ \E ids \in StartLists, depth \in 0..MaxDepth, p \in PRIVACY_LEVELS :
       GetGraphContext(ids, depth, p)
  \/ TravRelations
  \/ TravNodes

SpecConc == Init /\ [][NextConc]_vars

\* The store filled from nothing by ingestText and mergeEntities calls
\* made one after the other.
InitIngest ==
  /\ db = EmptyDb
  /\ oramaDb = {}
  /\ last = NoCall
  /\ mn = MnIdle
  /\ sat = SatIdle
  /\ searches = {}
  /\ calls = MaxStoreCalls
  /\ trav = TravIdle
  /\ mrg = MrgIdle

NextIngest ==
  \/ \E p \in PRIVACY_LEVELS, x \in Extractions : IngestText(p, x)
  \/ \E w, l \in EntityIds : MergeEntities(w, l)

SpecIngest == InitIngest /\ [][NextIngest]_vars

\* ------------------------------------------------------------------------
\* The queries of the store called on every store
\* ------------------------------------------------------------------------

\* The thresholds findCommonRelationPatterns is called with: a number of
\* occurrences (the callers pass none: the default).
MaxThreshold == 3

\* The pattern maps findEntitiesWithMissingRelations is given: entity
\* types to lists of relation types.
PatternMaps ==
  UNION {[K -> SeqsUpTo(Range(STORED_RELATION_TYPES),
                        Len(STORED_RELATION_TYPES))] :
           K \in SUBSET Range(ENTITY_TYPES)}

\* The candidate lists findEntitiesByNames is given.
CandidateLists == SeqsUpTo({Mention(n) : n \in Names}, 2)

\* Stores of SeedEntities entities of every type and at most SeedRelations
\* relations of every stored type.
PatternStores ==
  {[entities |-> [i \in 1..SeedEntities |->
                    [SeedEntity(i, "PUBLIC") EXCEPT !.type = t[i]]],
    relations |-> rels,
    documents |-> <<>>,
    entitySeq |-> SeedEntities] :
     t \in [1..SeedEntities -> Range(ENTITY_TYPES)],
     rels \in SeqsUpTo({[SeedRelation(src, tgt, "PUBLIC") EXCEPT !.type = R] :
                          src \in 1..SeedEntities, tgt \in 1..SeedEntities,
                          R \in Range(STORED_RELATION_TYPES)},
                       SeedRelations)}

\* Stores of at most SeedEntities entities of every name and level.
NameStores ==
  UNION {{[entities |-> [i \in ids |->
                          [SeedEntity(i, p[i]) EXCEPT !.name = n[i]]],
           relations |-> <<>>,
           documents |-> <<>>,
           entitySeq |-> SeedEntities] :
            n \in [ids -> Names], p \in [ids -> PRIVACY_LEVELS]} :
           ids \in SUBSET (1..SeedEntities)}

\* A call of findCommonRelationPatterns(threshold).
CallFindCommonRelationPatterns(threshold) ==
  /\ NotRunning
  /\ MayCall
  /\ calls' = calls - 1
  /\ last' = [op |-> "findCommonRelationPatterns", args |-> <<threshold>>,
              err |-> FALSE, before |-> db,
              result |-> FindCommonRelationPatterns(db, threshold)]
  /\ mn' = MnIdle
  /\ sat' = SatIdle
  /\ UNCHANGED <<db, oramaDb, searches, trav, mrg>>

\* A call of findEntitiesWithMissingRelations(patterns).
CallFindEntitiesWithMissingRelations(patterns) ==
  /\ NotRunning
  /\ MayCall
  /\ calls' = calls - 1
  /\ last' = [op |-> "findEntitiesWithMissingRelations",
              args |-> <<patterns>>, err |-> FALSE, before |-> db,
              result |-> FindEntitiesWithMissingRelations(db, patterns)]
  /\ mn' = MnIdle
  /\ sat' = SatIdle
  /\ UNCHANGED <<db, oramaDb, searches, trav, mrg>>

\* A call of findEntitiesByNames(candidates, privacyLevel).
CallFindEntitiesByNames(candidates, privacyLevel) ==
  /\ NotRunning
  /\ MayCall
  /\ calls' = calls - 1
  /\ last' = [op |-> "findEntitiesByNames",
              args |-> <<candidates, privacyLevel>>, err |-> FALSE,
              before |-> db,
              result |-> FindEntitiesByNames(db.entities, candidates,
                                             privacyLevel)]
  /\ mn' = MnIdle
  /\ sat' = SatIdle
  /\ UNCHANGED <<db, oramaDb, searches, trav, mrg>>

InitQuery ==
  /\ db \in PatternStores \cup NameStores
  /\ oramaDb = {}
  /\ last = NoCall
  /\ mn = MnIdle
  /\ sat = SatIdle
  /\ searches = {}
  /\ calls = MaxCalls
  /\ trav = TravIdle
  /\ mrg = MrgIdle

NextQuery ==
  \/ \E threshold \in 1..MaxThreshold :
       CallFindCommonRelationPatterns(threshold)
  \/ \E patterns \in PatternMaps :
       CallFindEntitiesWithMissingRelations(patterns)
  \/ \E candidates \in CandidateLists, p \in PRIVACY_LEVELS :
       CallFindEntitiesByNames(candidates, p)

SpecQuery == InitQuery /\ [][NextQuery]_vars

\* ------------------------------------------------------------------------
\* Properties of getGraphContext
\* ------------------------------------------------------------------------

\* The entity id is of a PRIVATE entity of the store.
IsPrivateEntity(id) ==
  id \in DOMAIN db.entities /\ db.entities[id].privacyLevel = "PRIVATE"

\* C1: for every store, every start list and every depth, a traversal at
\* privacy level PUBLIC holds (and so returns) no node whose privacy level
\* is PRIVATE, no edge whose privacy level is PRIVATE and no edge whose
\* source or target is a PRIVATE entity.
PublicTraversalReturnsNothingPrivate ==
  (trav.pc # "idle" /\ trav.privacyLevel = "PUBLIC") =>
    /\ \A n \in DOMAIN trav.nodesMap :
         /\ trav.nodesMap[n].privacyLevel # "PRIVATE"
         /\ ~ IsPrivateEntity(trav.nodesMap[n].id)
    /\ \A e \in DOMAIN trav.edgesMap :
         /\ trav.edgesMap[e].privacyLevel # "PRIVATE"
         /\ ~ IsPrivateEntity(trav.edgesMap[e].source)
         /\ ~ IsPrivateEntity(trav.edgesMap[e].target)

\* A PUBLIC traversal of depth 2 has returned an edge, and a PUBLIC
\* relation leads from one of its nodes to a PRIVATE entity.
PublicTraversalPastPrivateRows ==
  /\ trav.pc = "done"
  /\ trav.privacyLevel = "PUBLIC"
  /\ trav.depth = 2
  /\ DOMAIN trav.edgesMap # {}
  /\ \E r \in DOMAIN db.relations :
       /\ db.relations[r].privacyLevel = "PUBLIC"
       /\ db.relations[r].sourceEntityId \in DOMAIN trav.nodesMap
       /\ IsPrivateEntity(db.relations[r].targetEntityId)

\* ------------------------------------------------------------------------
\* Properties of the privacy levels
\* ------------------------------------------------------------------------

\* The rows of after that were PRIVATE in before are PRIVATE.
NoDowngrade(before, after) ==
  \A i \in DOMAIN before \cap DOMAIN after :
    before[i].privacyLevel = "PRIVATE" => after[i].privacyLevel = "PRIVATE"

\* C2: no step of ingestText, mergeEntities, mergeNodes or saturate takes
\* an entity or a relation from PRIVATE to PUBLIC.
PrivacyIsMonotone ==
  [][/\ NoDowngrade(db.entities, db'.entities)
     /\ NoDowngrade(db.relations, db'.relations)]_vars

\* An ingestion has upgraded an entity and a relation that were PUBLIC.
IngestUpgradedPrivacy ==
  /\ last.op = "ingestText"
  /\ \E e \in DOMAIN last.before.entities :
       /\ last.before.entities[e].privacyLevel = "PUBLIC"
       /\ db.entities[e].privacyLevel = "PRIVATE"
  /\ \E r \in DOMAIN last.before.relations :
       /\ last.before.relations[r].privacyLevel = "PUBLIC"
       /\ db.relations[r].privacyLevel = "PRIVATE"

\* ------------------------------------------------------------------------
\* Properties of mergeEntities
\* ------------------------------------------------------------------------

\* The last call was mergeEntities(winnerId, loserId) on a store that held
\* both entities.
MergedPresent ==
  /\ last.op = "mergeEntities"
  /\ last.args[1] \in DOMAIN last.before.entities
  /\ last.args[2] \in DOMAIN last.before.entities

\* The same, with winnerId # loserId.
MergedDistinct == MergedPresent /\ last.args[1] # last.args[2]

\* The endpoint a relation has after the merge of loserId into winnerId.
Repointed(endpoint, winnerId, loserId) ==
  IF endpoint = loserId THEN winnerId ELSE endpoint

\* C3: mergeEntities(winner, loser) with both present and distinct drops no
\* relation: the relation ids are the same, every relation keeps its type,
\* description, properties and privacy level, every endpoint that was the
\* loser is the winner and every other endpoint is unchanged.
MergeDropsNoRelation ==
  MergedDistinct =>
    /\ DOMAIN db.relations = DOMAIN last.before.relations
    /\ \A r \in DOMAIN last.before.relations :
         LET old == last.before.relations[r]
             new == db.relations[r]
         IN /\ new.type = old.type
            /\ new.description = old.description
            /\ new.properties = old.properties
            /\ new.privacyLevel = old.privacyLevel
            /\ new.sourceEntityId =
                 Repointed(old.sourceEntityId, last.args[1], last.args[2])
            /\ new.targetEntityId =
                 Repointed(old.targetEntityId, last.args[1], last.args[2])

\* A merge of two distinct entities moved a relation the loser was the
\* source of and another one the loser was the target of.
MergeMovedBothEnds ==
  /\ MergedDistinct
  /\ \E r1, r2 \in DOMAIN last.before.relations :
       /\ r1 # r2
       /\ last.before.relations[r1].sourceEntityId = last.args[2]
       /\ last.before.relations[r2].targetEntityId = last.args[2]
       /\ db.relations[r1].sourceEntityId = last.args[1]
       /\ db.relations[r2].targetEntityId = last.args[1]

\* C4: after mergeEntities(winner, loser) with both present and distinct,
\* allEntities() holds the winner and not the loser, and no relation has
\* the loser as its source or its target.
MergeKeepsWinnerOnly ==
  MergedDistinct =>
    /\ last.args[1] \in Range(GetAllEntities(db))
    /\ last.args[2] \notin Range(GetAllEntities(db))
    /\ \A r \in DOMAIN db.relations :
         /\ db.relations[r].sourceEntityId # last.args[2]
         /\ db.relations[r].targetEntityId # last.args[2]

\* A merge of two distinct entities whose loser had a relation to itself
\* and a relation with the winner.
MergeOfLoopedLoser ==
  /\ MergedDistinct
  /\ \E r1, r2 \in DOMAIN last.before.relations :
       /\ last.before.relations[r1].sourceEntityId = last.args[2]
       /\ last.before.relations[r1].targetEntityId = last.args[2]
       /\ last.before.relations[r2].sourceEntityId = last.args[1]
       /\ last.before.relations[r2].targetEntityId = last.args[2]

\* C6 as stated: mergeEntities with a loser id the store does not hold
\* reports an error and leaves the entities and the relations as they
\* were.
MergeOfAbsentLoserIsError ==
  (last.op = "mergeEntities"
     /\ last.args[2] \notin DOMAIN last.before.entities) =>
    /\ last.err
    /\ db.entities = last.before.entities
    /\ db.relations = last.before.relations

\* The winner is in the store, PRIVATE if the winner or the loser was
\* PRIVATE before the merge, PUBLIC if both were PUBLIC.
MergeWinnerPrivacy ==
  LET winnerId == last.args[1]
      loserId == last.args[2]
      wasPrivate ==
        \/ last.before.entities[winnerId].privacyLevel = "PRIVATE"
        \/ last.before.entities[loserId].privacyLevel = "PRIVATE"
  IN /\ winnerId \in DOMAIN db.entities
     /\ db.entities[winnerId].privacyLevel =
          IF wasPrivate THEN "PRIVATE" ELSE "PUBLIC"

\* C7 as stated: after mergeEntities(winner, loser) with both present, the
\* winner is PRIVATE if the winner or the loser was PRIVATE, and PUBLIC if
\* both were PUBLIC.
MergeInheritsPrivacyAlways == MergedPresent => MergeWinnerPrivacy

\* C7, for winner # loser: after mergeEntities(winner, loser) with both
\* present and distinct, the winner is PRIVATE if the winner or the loser
\* was PRIVATE, and PUBLIC if both were PUBLIC.
MergeInheritsPrivacy == MergedDistinct => MergeWinnerPrivacy

\* A merge upgraded a PUBLIC winner because its loser was PRIVATE.
MergeUpgradedWinner ==
  /\ MergedDistinct
  /\ last.before.entities[last.args[1]].privacyLevel = "PUBLIC"
  /\ last.before.entities[last.args[2]].privacyLevel = "PRIVATE"
  /\ db.entities[last.args[1]].privacyLevel = "PRIVATE"

\* ------------------------------------------------------------------------
\* Properties of saturate
\* ------------------------------------------------------------------------

\* C8 as stated: no query sent to the external search service is built
\* from an entity whose privacy level is PRIVATE.
SaturateSearchesNoPrivateEntity ==
  \A q \in searches : q.privacyLevel # "PRIVATE"

\* C9 as stated: when the catch clause of the per-entity try block catches
\* a failure of the search or of the ingestion, the loop goes on to the
\* next gapped entity of the iteration.
SaturateFailureIsPerEntity ==
  [][sat'.caught > sat.caught =>
       (sat'.pc = "entities" /\ sat'.g = sat.g + 1)]_vars

\* A run of saturate is between its start and its end.
SaturateRunning == sat.pc \in {"entities", "merge"}

SaturateFinished == sat.pc \in {"done", "failed"}

\* C10: for every maxIterations >= 0 and every behaviour of the search
\* adapter, a run of saturate finishes (it returns or it fails), and every
\* iteration it starts is one of the first maxIterations.
SaturateTerminates ==
  /\ [](SaturateRunning => sat.i < sat.maxIterations)
  /\ SaturateRunning ~> SaturateFinished

\* A run of MaxIterations iterations has returned after it sent a query
\* and ingested a result.
SaturateRanAllIterations ==
  /\ sat.pc = "done"
  /\ sat.maxIterations = MaxIterations
  /\ sat.i = MaxIterations
  /\ sat.saturatedCount > 0
  /\ searches # {}

\* ------------------------------------------------------------------------
\* Properties of mergeEntities under interleaving
\* ------------------------------------------------------------------------

\* The relations of the store that had the loser as an endpoint when the
\* merge was called and have been re-pointed since.
MergeRepointed ==
  {r \in DOMAIN mrg.before.relations :
     /\ \/ mrg.before.relations[r].sourceEntityId = mrg.loserId
        \/ mrg.before.relations[r].targetEntityId = mrg.loserId
     /\ db.relations[r] # mrg.before.relations[r]}

\* The relations of the store that still have the loser as an endpoint.
MergePending ==
  {r \in DOMAIN db.relations :
     \/ db.relations[r].sourceEntityId = mrg.loserId
     \/ db.relations[r].targetEntityId = mrg.loserId}

\* C5 as stated: a traversal that reads the store between the statements
\* of mergeEntities(winnerId, loserId), and a failure of one of the
\* statements, never find the store with only some of the loser's
\* relations re-pointed, or with relations re-pointed and the loser row
\* still there.
MergeIsAllOrNothing ==
  (/\ mrg.pc # "idle"
   /\ mrg.winnerId # mrg.loserId
   /\ trav.pc \in {"relations", "nodes"} \/ mrg.pc = "failed") =>
    /\ ~ (MergeRepointed # {} /\ MergePending # {})
    /\ ~ (MergeRepointed # {} /\ mrg.loserId \in DOMAIN db.entities)

\* C11 as stated: the saturatedCount a run of saturate returns is the
\* number of gapped entities whose search returned a result that lists a
\* relation and was ingested; an entity with no result or with an empty
\* result is not counted.
SaturatedCountIsListedResults ==
  sat.pc = "done" => sat.saturatedCount = sat.listed


\* C12 as stated: on a store with no entities the gap map of every
\* iteration of saturate is empty, no search is issued, no document is
\* ingested, and the run ends by returning {saturatedCount}: it never fails.
SaturateOfEmptyStoreSucceeds ==
  (sat.pc # "idle" /\ DOMAIN db.entities = {}) =>
    /\ sat.gaps = <<>>
    /\ searches = {}
    /\ db.documents = <<>>
    /\ sat.pc # "failed"


\* C13 as stated: mergeNodes called on a store with no entities returns the
\* empty result (zero merges, no pair), writes nothing and raises no error.
MergeNodesOfEmptyStoreIsNoOp ==
  (mn.pc \in {"done", "failed"} /\ DOMAIN db.entities = {}) =>
    /\ mn.pc = "done"
    /\ mn.mergedPairs = <<>>
    /\ db.relations = <<>>


\* The store holds exactly the two entities lo < hi and they have one name.
TwoDuplicates(store, lo, hi) ==
  /\ DOMAIN store.entities = {lo, hi}
  /\ lo < hi
  /\ store.entities[lo].name = store.entities[hi].name

\* The relations of the store that have the entity as an endpoint.
RelationsOf(store, id) ==
  {r \in DOMAIN store.relations :
     \/ store.relations[r].sourceEntityId = id
     \/ store.relations[r].targetEntityId = id}

\* C14: on a store of exactly two entities of one name, when the index
\* reports the other entity as the hit, mergeNodes merges once, the lower
\* id as the winner and the higher as the loser, the survivor is an
\* endpoint of every relation either entity was an endpoint of, and the
\* rest of the run adds no pair.
MergeNodesMergesTwoDuplicates ==
  [][\A lo, hi \in EntityIds :
       /\ (/\ mn.pc = "scan" /\ mn.k = 1
           /\ TwoDuplicates(db, lo, hi)
           /\ mn'.k = 2
           /\ hi \in Range(mn'.similar)
           /\ Range(mn'.similar) \subseteq {lo, hi})
          => /\ mn'.mergedPairs = <<[winner |-> ToString(lo),
                                     loser |-> ToString(hi)]>>
             /\ DOMAIN db'.entities = {lo}
             /\ DOMAIN db'.relations = DOMAIN db.relations
             /\ \A r \in RelationsOf(db, lo) \cup RelationsOf(db, hi) :
                  r \in RelationsOf(db', lo)
       /\ (/\ mn.pc = "scan" /\ mn.k = 2
           /\ mn.all = <<lo, hi>>
           /\ Len(mn.mergedPairs) = 1)
          => /\ mn'.pc = "done"
             /\ mn'.mergedPairs = mn.mergedPairs
             /\ db' = db]_vars

MergedTwoDuplicates ==
  /\ mn.pc = "done"
  /\ mn.all = <<2, 3>>
  /\ mn.similar = <<3>>
  /\ mn.mergedPairs = <<[winner |-> "2", loser |-> "3"]>>
  /\ DOMAIN db.entities = {2}
  /\ Len(db.relations) = 2
  /\ RelationsOf(db, 2) = {1, 2}


\* C15 as stated: on the store of three companies of which two are the
\* source of a HAS_HEADQUARTERS relation, mining with threshold 2 yields
\* {COMPANY: [HAS_HEADQUARTERS]}, the company without one is flagged as
\* missing it outgoing, and the step of the iteration that ingests the
\* result found for that company, linking it to a new entity, makes
\* saturatedCount 1, writes one SEARCH document, and the new entity is the
\* target of a HAS_HEADQUARTERS relation out of that company.
SaturateAddsHeadquarters ==
  [][(/\ db = HeadquartersDb
      /\ sat.pc = "entities" /\ sat.i = 0 /\ sat.g = 1
      /\ sat'.listed = 1
      /\ \E r \in DOMAIN db'.relations \ DOMAIN db.relations :
            /\ db'.relations[r].sourceEntityId = 1
            /\ db'.relations[r].targetEntityId \notin DOMAIN db.entities)
     => /\ FindCommonRelationPatterns(db, 2)
             = [T \in {"COMPANY"} |-> <<"HAS_HEADQUARTERS">>]
        /\ sat.gaps[1].id = 1
        /\ sat.gaps[1].outRelationTypes = {"HAS_HEADQUARTERS"}
        /\ sat'.saturatedCount = 1
        /\ Len(db'.documents) = 1
        /\ db'.documents[1].sourceType = "SEARCH"
        /\ \E r \in DOMAIN db'.relations \ DOMAIN db.relations :
              /\ db'.relations[r].type = "HAS_HEADQUARTERS"
              /\ db'.relations[r].sourceEntityId = 1
              /\ db'.relations[r].targetEntityId \notin DOMAIN db.entities]_vars


\* C16: an entity is in the result of findEntitiesWithMissingRelations with
\* R among its missing outgoing types if and only if the pattern map
\* gives its type a list that contains R and no relation of type R has
\* the entity as its source.
MissingOutIsExact ==
  last.op = "findEntitiesWithMissingRelations" =>
    LET patterns == last.args[1]
    IN \A e \in DOMAIN db.entities, R \in Range(STORED_RELATION_TYPES) :
         (\E i \in DOMAIN last.result :
            /\ last.result[i].id = e
            /\ R \in last.result[i].outRelationTypes)
         <=> /\ db.entities[e].type \in DOMAIN patterns
             /\ R \in Range(patterns[db.entities[e].type])
             /\ ~ \E r \in DOMAIN db.relations :
                    /\ db.relations[r].type = R
                    /\ db.relations[r].sourceEntityId = e

MissingOutOfSomeNotAll ==
  /\ last.op = "findEntitiesWithMissingRelations"
  /\ \E i \in DOMAIN last.result :
       /\ "HAS_HEADQUARTERS" \in last.result[i].outRelationTypes
       /\ "SUBSIDIARY_OF" \notin last.result[i].outRelationTypes
       /\ "SUBSIDIARY_OF" \in Range(last.args[1][last.result[i].type])
  /\ \E e \in DOMAIN db.entities :
       /\ db.entities[e].type \notin DOMAIN last.args[1]
       /\ \A i \in DOMAIN last.result : last.result[i].id # e

ByNamesResolvesVisibleRows ==
  last.op = "findEntitiesByNames" =>
    LET candidates == last.args[1]
        privacyLevel == last.args[2]
        resolved == Range(last.result.resolved)
    IN /\ resolved =
            {e \in DOMAIN db.entities :
               /\ \E i \in DOMAIN candidates :
                    db.entities[e].name = candidates[i].name
               /\ privacyLevel = "PUBLIC"
                    => db.entities[e].privacyLevel = "PUBLIC"}
       /\ last.result.unresolved =
            SelectSeq(candidates,
                      LAMBDA c : \A e \in resolved : db.entities[e].name # c.name)

ByNamesLeftPrivateUnresolved ==
  /\ last.op = "findEntitiesByNames"
  /\ last.args[2] = "PUBLIC"
  /\ Len(last.args[1]) = 2
  /\ Len(last.result.resolved) = 1
  /\ Len(last.result.unresolved) = 1
  /\ \E e \in DOMAIN db.entities :
       /\ db.entities[e].privacyLevel = "PRIVATE"
       /\ db.entities[e].name = last.result.unresolved[1].name


\* C19 as stated: a traversal of depth at least 1 returns the induced
\* subgraph: every relation visible at its privacy level whose source and
\* target are both among the returned nodes is among the returned edges.
TraversalReturnsInducedSubgraph ==
  (trav.pc = "done" /\ trav.depth >= 1) =>
    \A r \in DOMAIN db.relations :
      (/\ trav.privacyLevel = "PUBLIC" => db.relations[r].privacyLevel = "PUBLIC"
       /\ db.relations[r].sourceEntityId \in DOMAIN trav.nodesMap
       /\ db.relations[r].targetEntityId \in DOMAIN trav.nodesMap)
      => r \in DOMAIN trav.edgesMap

\* The row is visible to a query at the level.
VisibleAt(privacyLevel, row) ==
  privacyLevel = "PRIVATE" \/ row.privacyLevel = "PUBLIC"

\* The visible entities within k hops of a visible start entity, along
\* visible relations taken in either direction, through visible entities.
RECURSIVE WithinHops(_, _, _, _)
WithinHops(store, startEntityIds, privacyLevel, k) ==
  IF k = 0
  THEN {e \in startEntityIds \cap DOMAIN store.entities :
          VisibleAt(privacyLevel, store.entities[e])}
  ELSE
    LET prev == WithinHops(store, startEntityIds, privacyLevel, k - 1)
    IN prev \cup
       {e \in DOMAIN store.entities :
          /\ VisibleAt(privacyLevel, store.entities[e])
          /\ \E r \in DOMAIN store.relations :
               /\ VisibleAt(privacyLevel, store.relations[r])
               /\ \/ /\ store.relations[r].sourceEntityId \in prev
                     /\ store.relations[r].targetEntityId = e
                  \/ /\ store.relations[r].targetEntityId \in prev
                     /\ store.relations[r].sourceEntityId = e}

\* C20: the nodes a traversal returns are exactly the existing entities
\* visible at its level that are start entities or within depth hops of a
\* visible start entity along visible relations, taken in either direction,
\* through visible entities only; a traversal of depth 0 returns the
\* visible start entities and no edge.
TraversalReturnsReachableNodes ==
  trav.pc = "done" =>
    /\ DOMAIN trav.nodesMap =
         WithinHops(db, trav.startEntityIds, trav.privacyLevel, trav.depth)
    /\ trav.depth = 0 => DOMAIN trav.edgesMap = {}

PublicTraversalStoppedAtPrivate ==
  /\ trav.pc = "done"
  /\ trav.privacyLevel = "PUBLIC"
  /\ trav.depth = 2
  /\ trav.startEntityIds = {1}
  /\ DOMAIN trav.nodesMap = {1}
  /\ \E r1, r2 \in DOMAIN db.relations, m, x \in DOMAIN db.entities :
       /\ db.relations[r1].privacyLevel = "PUBLIC"
       /\ db.relations[r2].privacyLevel = "PUBLIC"
       /\ db.relations[r1].targetEntityId = 1
       /\ db.relations[r1].sourceEntityId = m
       /\ db.relations[r2].sourceEntityId = m
       /\ db.relations[r2].targetEntityId = x
       /\ db.entities[m].privacyLevel = "PRIVATE"
       /\ db.entities[x].privacyLevel = "PUBLIC"
       /\ x # 1


NoChainedMerge ==
  \A i, j \in DOMAIN mn.mergedPairs :
    i < j =>
      {mn.mergedPairs[i].winner, mn.mergedPairs[i].loser}
        \cap {mn.mergedPairs[j].winner, mn.mergedPairs[j].loser} = {}


\* C23 as stated: a candidate pair whose winner or loser is no longer in
\* the store when it is to be merged is skipped and not recorded: no
\* recorded pair names the loser of an earlier pair, which that merge
\* deleted, and relations keep referencing entities of the store.
StaleHitIsSkipped ==
  /\ \A i, j \in DOMAIN mn.mergedPairs :
       i < j =>
         /\ mn.mergedPairs[j].winner # mn.mergedPairs[i].loser
         /\ mn.mergedPairs[j].loser # mn.mergedPairs[i].loser
  /\ mn.pc # "idle" =>
       \A r \in DOMAIN db.relations :
         /\ db.relations[r].sourceEntityId \in DOMAIN db.entities
         /\ db.relations[r].targetEntityId \in DOMAIN db.entities


\* C24 as stated: in every invocation of mergeNodes, the second and later
\* ones of the process included, the index that is queried holds exactly
\* the entities read from the store at the start of the invocation, and
\* indexing them again never makes the invocation fail.
IndexIsRebuiltPerInvocation ==
  /\ mn.pc = "scan" => oramaDb = Range(mn.all)
  /\ mn.pc = "failed" => DOMAIN db.entities = {}


\* C25: every edge a traversal holds (and so returns) has its source and
\* its target among the nodes it holds, on every store, for every start
\* list, depth and privacy level, also when a merge rewrites the store
\* between the reads of the traversal.
EdgesJoinReturnedNodes ==
  \A e \in DOMAIN trav.edgesMap :
    /\ trav.edgesMap[e].source \in DOMAIN trav.nodesMap
    /\ trav.edgesMap[e].target \in DOMAIN trav.nodesMap

TraversalOverlappedMerge ==
  /\ trav.pc = "done"
  /\ mrg.pc # "idle"
  /\ mrg.loserId \in DOMAIN trav.nodesMap
  /\ \E e \in DOMAIN trav.edgesMap :
       /\ e \in DOMAIN mrg.before.relations
       /\ trav.edgesMap[e].source # mrg.before.relations[e].sourceEntityId


\* C26: no entity id is in the frontier of two rounds (the frontier a round
\* ends with holds no id visited before), the frontier of the next round
\* is exactly the visible entities the round admitted as nodes, and the
\* traversal runs at most depth rounds and reads relations only for a
\* frontier that is not empty, on every graph, cycles and self-loops
\* included.
FrontierIsTheNewlyAdmitted ==
  [][/\ (trav.pc = "nodes" /\ trav'.pc # "nodes") =>
          /\ trav'.currentLevelIds \cap trav.visitedNodeIds = {}
          /\ trav'.currentLevelIds =
               DOMAIN trav'.nodesMap \ DOMAIN trav.nodesMap
          /\ \A e \in trav'.currentLevelIds :
               /\ e \in DOMAIN db.entities
               /\ VisibleAt(trav.privacyLevel, db.entities[e])
          /\ trav'.d = trav.d + 1
     /\ trav'.d <= trav'.depth
     /\ trav'.pc \in {"relations", "nodes"} =>
          /\ trav'.currentLevelIds # {}
          /\ trav'.d < trav'.depth]_vars

TraversalStoppedOnCycle ==
  /\ trav.pc = "done"
  /\ trav.startEntityIds = {1}
  /\ trav.depth = 2
  /\ trav.d = 1
  /\ DOMAIN trav.nodesMap = {1, 2}
  /\ DOMAIN trav.edgesMap = {1, 2}
  /\ \E r \in DOMAIN db.relations :
       /\ db.relations[r].sourceEntityId = 2
       /\ db.relations[r].targetEntityId = 1


CreatedRowsCarryDocumentSource ==
  [][Len(db'.documents) = Len(db.documents) + 1
       => LET document == db'.documents[Len(db'.documents)]
          IN /\ \A e \in DOMAIN db'.entities \ DOMAIN db.entities :
                   db'.entities[e].sourceType = document.sourceType
             /\ \A r \in DOMAIN db'.relations \ DOMAIN db.relations :
                   db'.relations[r].sourceType = document.sourceType]_vars


\* C29: ingestText of a PRIVATE document upgrades to PRIVATE every existing
\* PUBLIC entity whose name it extracts and every existing PUBLIC relation
\* it re-extracts (same source, target and type), and creates its new
\* entities and relations as PRIVATE; ingestText of a PUBLIC document
\* leaves the privacy of every existing entity and relation as it was.
IngestUpgradesWhatItExtracts ==
  last.op = "ingestText" =>
    LET privacyLevel == last.args[2]
        extraction == last.args[3]
        before == last.before
        names == {extraction.entities[i].name :
                    i \in DOMAIN extraction.entities}
        Extracted(r) ==
          /\ r.sourceEntityId \in DOMAIN before.entities
          /\ r.targetEntityId \in DOMAIN before.entities
          /\ \E k \in DOMAIN extraction.relations :
                LET x == extraction.relations[k]
                IN /\ x.source \in names
                   /\ x.target \in names
                   /\ x.source = before.entities[r.sourceEntityId].name
                   /\ x.target = before.entities[r.targetEntityId].name
                   /\ x.type = r.type
    IN IF privacyLevel = "PRIVATE"
       THEN /\ \A e \in DOMAIN before.entities :
                 before.entities[e].name \in names
                   => db.entities[e].privacyLevel = "PRIVATE"
            /\ \A r \in DOMAIN before.relations :
                 Extracted(before.relations[r])
                   => db.relations[r].privacyLevel = "PRIVATE"
            /\ \A e \in DOMAIN db.entities \ DOMAIN before.entities :
                 db.entities[e].privacyLevel = "PRIVATE"
            /\ \A r \in DOMAIN db.relations \ DOMAIN before.relations :
                 db.relations[r].privacyLevel = "PRIVATE"
       ELSE /\ \A e \in DOMAIN before.entities :
                 db.entities[e].privacyLevel = before.entities[e].privacyLevel
            /\ \A r \in DOMAIN before.relations :
                 db.relations[r].privacyLevel
                   = before.relations[r].privacyLevel

\* C30: starting from the empty store, after any sequence of ingestText
\* and mergeEntities calls made one after the other, no two entities have
\* the same name.
EntityNamesAreUnique ==
  \A e, f \in DOMAIN db.entities :
     db.entities[e].name = db.entities[f].name => e = f

\* A PUBLIC document named an entity that existed as PRIVATE, and
\* ingestText created no entity for it.
PublicIngestFoundPrivateEntity ==
  /\ last.op = "ingestText"
  /\ last.args[2] = "PUBLIC"
  /\ \E i \in DOMAIN last.args[3].entities, e \in DOMAIN last.before.entities :
       /\ last.before.entities[e].name = last.args[3].entities[i].name
       /\ last.before.entities[e].privacyLevel = "PRIVATE"
  /\ DOMAIN db.entities = DOMAIN last.before.entities
  /\ Cardinality(DOMAIN db.entities) >= 2

====
